---- MODULE Spec2Model ----
(***************************************************************************)
(* A model of HadithTranslator (hadith_translator.py): the response parser *)
(* parse_gemini_response as an operator over character sequences, and the  *)
(* orchestrator process_all / translate_hadiths as a state machine over    *)
(* the batch directory, the in-memory accumulation and the two passes.     *)
(***************************************************************************)
EXTENDS Integers, Sequences, FiniteSets, TLC

(***************************************************************************)
(* Text.  A Python str is a sequence of one-character strings.             *)
(***************************************************************************)

\* Characters for which str.isdigit() is true and int() accepts them.
AsciiDigits == <<"0", "1", "2", "3", "4", "5", "6", "7", "8", "9">>

\* "^2" stands for U+00B2 SUPERSCRIPT TWO: str.isdigit() is true of it, int() rejects it.
SuperTwo == "^2"

\* The characters str.strip() removes.
Whitespace == {" ", "\n"}

IsAsciiDigit(c) == \E d \in 1..10 : AsciiDigits[d] = c

DigitVal(c) == (CHOOSE d \in 1..10 : AsciiDigits[d] = c) - 1

\* str.isdigit(): non-empty and every character is a digit character.
isdigit(s) == Len(s) > 0 /\ \A k \in 1..Len(s) : IsAsciiDigit(s[k]) \/ s[k] = SuperTwo

\* int(s) is defined (does not raise ValueError) for a string isdigit() accepts.
IntDefined(s) == \A k \in 1..Len(s) : IsAsciiDigit(s[k])

RECURSIVE IntOf(_)
IntOf(s) == IF Len(s) = 0 THEN 0
            ELSE 10 * IntOf(SubSeq(s, 1, Len(s) - 1)) + DigitVal(s[Len(s)])

\* str(n) for n >= 0.
RECURSIVE Str(_)
Str(n) == IF n < 10 THEN <<AsciiDigits[n + 1]>>
          ELSE Str(n \div 10) \o <<AsciiDigits[(n % 10) + 1]>>

\* s.strip()
strip(s) ==
    LET keep == {k \in 1..Len(s) : s[k] \notin Whitespace}
    IN  IF keep = {} THEN <<>>
        ELSE LET lo == CHOOSE k \in keep : \A j \in keep : k <= j
                 hi == CHOOSE k \in keep : \A j \in keep : k >= j
             IN  SubSeq(s, lo, hi)

\* Position of the first occurrence of c in s, 0 when absent.
Find(s, c) ==
    LET at == {k \in 1..Len(s) : s[k] = c}
    IN  IF at = {} THEN 0 ELSE CHOOSE k \in at : \A j \in at : k <= j

\* s.split(sep): the pieces of s between the occurrences of the character sep.
RECURSIVE split(_, _)
split(s, sep) ==
    LET p == Find(s, sep)
    IN  IF p = 0 THEN <<s>>
        ELSE <<SubSeq(s, 1, p - 1)>> \o split(SubSeq(s, p + 1, Len(s)), sep)

\* Cutting at every sep and keeping the first two pieces.
splitEvery(s, sep) == split(s, sep)

\* s.split(sep, 1): at most one cut, at the first sep.
split1(s, sep) ==
    LET p == Find(s, sep)
    IN  IF p = 0 THEN <<s>>
        ELSE <<SubSeq(s, 1, p - 1), SubSeq(s, p + 1, Len(s))>>

\* ' '.join(parts)
RECURSIVE join(_)
join(parts) ==
    IF Len(parts) = 0 THEN <<>>
    ELSE IF Len(parts) = 1 THEN parts[1]
    ELSE parts[1] \o <<" ">> \o join(Tail(parts))

\* '\n'.join(lines)
RECURSIVE joinLines(_)
joinLines(lines) ==
    IF Len(lines) = 0 THEN <<>>
    ELSE IF Len(lines) = 1 THEN lines[1]
    ELSE lines[1] \o <<"\n">> \o joinLines(Tail(lines))

(***************************************************************************)
(* parse_gemini_response                                                   *)
(***************************************************************************)

\* current_id = None
None == -1

\* A TranslatedRecord {'id': ..., <language key>: ...}.
Translated(id, text) == [id |-> id, text |-> text]

\* The locals of parse_gemini_response before the loop.
ParseStart == [translations |-> <<>>, current_id |-> None,
               current_translation |-> <<>>, raised |-> FALSE]

\* if current_id is not None and current_translation: translations.append(...)
Flush(st) ==
    IF st.current_id # None /\ Len(st.current_translation) > 0
    THEN Append(st.translations,
                Translated(st.current_id, join(st.current_translation)))
    ELSE st.translations

\* if ':' in line and line.split(':')[0].strip().isdigit()
IsIdLine(line) == Find(line, ":") > 0 /\ isdigit(strip(split(line, ":")[1]))

\* One iteration of the loop over the lines.
ParseLine(st, rawline) ==
    LET line == strip(rawline)
    IN  IF st.raised \/ Len(line) = 0 THEN st
        ELSE IF IsIdLine(line)
        THEN LET parts == split1(line, ":")
                 head  == strip(parts[1])
             IN  IF ~IntDefined(head)
                 THEN [st EXCEPT !.translations = Flush(st), !.raised = TRUE]
                 ELSE [st EXCEPT !.translations = Flush(st),
                                 !.current_id = IntOf(head),
                                 !.current_translation =
                                     IF Len(parts) > 1 THEN <<strip(parts[2])>> ELSE <<>>]
        ELSE IF st.current_id # None
        THEN [st EXCEPT !.current_translation = Append(@, line)]
        ELSE st

\* for line in ...: the locals after the lines k.. of the reply.
RECURSIVE ParseLines(_, _, _)
ParseLines(st, lines, k) ==
    IF k > Len(lines) THEN st
    ELSE ParseLines(ParseLine(st, lines[k]), lines, k + 1)

\* What the function returns from the locals at the end of the loop.
ParseResult(st) ==
    IF st.raised THEN [raised |-> TRUE, translations |-> <<>>]
    ELSE [raised |-> FALSE, translations |-> Flush(st)]

\* The result: raised (int() threw ValueError) or the list of records.
parse_gemini_response(text) ==
    ParseResult(ParseLines(ParseStart, split(strip(text), "\n"), 1))

\* The reply "{id}: {text}", one line per pair.
ReplyLine(id, text) == Str(id) \o <<":", " ">> \o text

FormatReply(ps) == joinLines([k \in 1..Len(ps) |-> ReplyLine(ps[k].id, ps[k].text)])

(***************************************************************************)
(* Bounds of the model.                                                    *)
(***************************************************************************)

\* The input file holds 0..MaxSmallInput records (less than one batch of pass 1), or
\* from one full batch up to MaxRecords records.
MaxSmallInput == 6

MaxRecords == 25

\* An id no input record has, which a reply may nevertheless contain.
ForeignId == 99

\* Round-trip inputs: lists of at most MaxPairs pairs, texts of at most MaxTextLen characters.
MaxPairs == 2

MaxTextLen == 1

\* Replies as raw text: every text of at most MaxReplyLen characters.
MaxReplyLen == 5

(***************************************************************************)
(* Program constants.                                                      *)
(***************************************************************************)

\* process_all: translate_hadiths(hadiths, batch_size=20)
FirstPassBatchSize == 20

\* process_all: batch_size = 5 if len(missing_hadiths) < 20 else 20
SmallBatchSize == 5

SmallMissingBelow == 20

LargeBatchSize == 20

\* combine_batches_except_last: if len(batch_data) < 20
TrimBelow == 20

(***************************************************************************)
(* State.                                                                  *)
(***************************************************************************)

VARIABLES
    pc,                     \* where process_all is
    pass,                   \* 1: the initial translation, 2: the missing hadiths
    input_file,             \* data['hadiths'] of the input file
    start_dir,              \* history: batch_translations/ when the job started
    dir,                    \* batch_translations/: batch number -> file content
    hadiths,                \* translate_hadiths: the list being translated
    batch_size,             \* translate_hadiths: batch_size
    i,                      \* translate_hadiths: the loop variable
    batch_num,              \* translate_hadiths: batch_num
    translations,           \* translate_hadiths: translations
    combined_translations,  \* process_all: combined_translations
    missing_hadiths,        \* process_all: missing_hadiths
    final_output,           \* final_translations.json
    trace,                  \* history: one entry per loop iteration of translate_hadiths
    pairs,                  \* round trip: the synthetic (id, text) pairs
    response_text,          \* round trip: the reply text
    parsed                  \* round trip: the parser's result

vars == <<pc, pass, input_file, start_dir, dir, hadiths, batch_size, i, batch_num, translations,
          combined_translations, missing_hadiths, final_output, trace,
          pairs, response_text, parsed>>

parserVars == <<pairs, response_text, parsed>>

Min(a, b) == IF a < b THEN a ELSE b

\* An input Record; only its id matters to the orchestrator.
Record(id) == [id |-> id]

\* A chunk file: valid JSON holding a list; text that json.load rejects with
\* JSONDecodeError; or content that cannot be read as text at all (it ends inside a
\* multi-byte character: reading it raises UnicodeDecodeError).
File(data) == [readable |-> TRUE, valid |-> TRUE, data |-> data]

Malformed == [readable |-> TRUE, valid |-> FALSE, data |-> <<>>]

Unreadable == [readable |-> FALSE, valid |-> FALSE, data |-> <<>>]

\* What a write that raised may have left of a file.
PartialFiles == {Malformed, Unreadable}

NoFile == [written |-> FALSE, data |-> <<>>]

\* The round trip has not parsed yet.
NotParsed == [raised |-> FALSE, translations |-> <<>>]

Ids(records) == {records[k].id : k \in 1..Len(records)}

InputSizes == (0..MaxSmallInput) \cup (FirstPassBatchSize..MaxRecords)

\* The input files of the model: ids 1..n, and for n >= 2 the same with the last id repeating the first.
Inputs ==
    {[k \in 1..n |-> Record(k)] : n \in InputSizes}
    \cup {[k \in 1..n |-> Record(IF k = n THEN 1 ELSE k)] : n \in 2..3}

\* The directory at start: empty (os.makedirs creates it), or left by an earlier run.
EmptyDir == [n \in {} |-> Malformed]

StaleDir == [n \in {3} |-> File(<<Translated(1, <<"s">>), Translated(2, <<"s">>)>>)]

InitialDirs == {EmptyDir, StaleDir}

(***************************************************************************)
(* combine_batches_except_last and find_missing_hadiths                    *)
(***************************************************************************)

\* sorted(os.listdir(output_dir), key = batch number)
RECURSIVE Sorted(_)
Sorted(nums) ==
    IF nums = {} THEN <<>>
    ELSE LET lo == CHOOSE n \in nums : \A m \in nums : n <= m
         IN  <<lo>> \o Sorted(nums \ {lo})

\* Trimming also the files of exactly 20 records.
ContributionTrimAt20(file) ==
    IF ~file.valid \/ Len(file.data) = 0 THEN <<>>
    ELSE IF Len(file.data) <= TrimBelow
         THEN SubSeq(file.data, 1, Len(file.data) - 1)
         ELSE file.data

\* What one batch file adds to combined_hadiths.
Contribution(file) ==
    IF ~file.valid THEN <<>>                       \* json.JSONDecodeError: printed, skipped
    ELSE IF Len(file.data) = 0 THEN <<>>           \* if batch_data and ...
    ELSE IF Len(file.data) < TrimBelow
         THEN SubSeq(file.data, 1, Len(file.data) - 1)   \* batch_data[:-1]
         ELSE file.data

RECURSIVE CombineFiles(_, _)
CombineFiles(d, names) ==
    IF Len(names) = 0 THEN <<>>
    ELSE Contribution(d[Head(names)]) \o CombineFiles(d, Tail(names))

combine_batches_except_last(d) == CombineFiles(d, Sorted(DOMAIN d))

\* Taking the translated list for a prefix of the input.
find_missing_by_count(original_hadiths, translated_hadiths) ==
    SubSeq(original_hadiths, Min(Len(translated_hadiths), Len(original_hadiths)) + 1,
           Len(original_hadiths))

\* [h for h in original_hadiths if h['id'] not in translated_ids]
find_missing_hadiths(original_hadiths, translated_hadiths) ==
    LET translated_ids == Ids(translated_hadiths)
        Absent(h) == h.id \notin translated_ids
    IN  SelectSeq(original_hadiths, Absent)

\* The second pass keeping the batch size of the first.
SecondPassSameSize(missing) == LargeBatchSize

\* batch_size = 5 if len(missing_hadiths) < 20 else 20
SecondPassBatchSize(missing) ==
    IF Len(missing) < SmallMissingBelow THEN SmallBatchSize ELSE LargeBatchSize

(***************************************************************************)
(* The external service.  A reply is any text; the model draws it from the *)
(* replies below, built from the batch that was submitted.                 *)
(***************************************************************************)

\* The translation the service gives a record.
ReplyText == <<"t">>

AsPairs(batch) == [k \in 1..Len(batch) |-> [id |-> batch[k].id, text |-> ReplyText]]

\* One line per record of the batch, in order.
FullReply(batch) == FormatReply(AsPairs(batch))

\* The same with a preamble, blank lines and padding around the lines.
ChattyReply(batch) ==
    <<"o", "k", "\n", "\n">> \o FullReply(batch) \o <<" ", "\n">>

\* The reply stops before the last record.
ShortReply(batch) == FormatReply(SubSeq(AsPairs(batch), 1, Len(batch) - 1))

\* The reply has one more line, for an id that is in no input record.
ForeignReply(batch) ==
    FormatReply(Append(AsPairs(batch), [id |-> ForeignId, text |-> ReplyText]))

\* The reply numbers its first line with a superscript digit.
SuperscriptReply(batch) == <<SuperTwo, ":", " ", "t", "\n">> \o FullReply(batch)

Replies(batch) ==
    {FullReply(batch), ChattyReply(batch), ShortReply(batch), ForeignReply(batch),
     SuperscriptReply(batch)}

(***************************************************************************)
(* translate_hadiths                                                       *)
(***************************************************************************)

\* Each slice running one record into the next.
BatchOneMore == SubSeq(hadiths, i + 1, Min(i + batch_size + 1, Len(hadiths)))

\* batch = hadiths[i:min(i + batch_size, len(hadiths))]
Batch == SubSeq(hadiths, i + 1, Min(i + batch_size, Len(hadiths)))

InLoop == pc = "TRANSLATING" /\ i < Len(hadiths)

\* The history entry of one loop iteration.
Entry(outcome, wrote, data) ==
    [pass |-> pass, batch |-> Batch, num |-> batch_num,
     outcome |-> outcome, wrote |-> wrote, data |-> data]

\* dir with batch_<num>.json (re)written.
WriteFile(d, num, file) ==
    [n \in DOMAIN d \cup {num} |-> IF n = num THEN file ELSE d[n]]

\* The call into translate_hadiths(list, size).
EnterTranslate(list, size, p) ==
    /\ pc' = "TRANSLATING"
    /\ pass' = p
    /\ hadiths' = list
    /\ batch_size' = size
    /\ i' = 0
    /\ batch_num' = 1
    /\ translations' = <<>>

\* The for loop takes the next i.
NextBatch == i' = i + batch_size

\* The loop leaving at the first error (break where the code has continue).
BreakAfterError(e) ==
    /\ trace' = Append(trace, e)
    /\ i' = Len(hadiths)

\* except Exception as e: print(...); continue
ContinueAfterError(e) ==
    /\ trace' = Append(trace, e)
    /\ NextBatch

\* An iteration in which everything in the try block succeeds.
BatchSaved(reply) ==
    /\ InLoop
    /\ LET r == parse_gemini_response(reply)
       IN  /\ ~r.raised
           /\ dir' = WriteFile(dir, batch_num, File(r.translations))
           /\ translations' = translations \o r.translations
           /\ trace' = Append(trace, Entry("ok", TRUE, r.translations))
    /\ batch_num' = batch_num + 1
    /\ NextBatch
    /\ UNCHANGED <<pc, pass, input_file, start_dir, hadiths, batch_size, combined_translations,
                   missing_hadiths, final_output, parserVars>>

\* A failed call using up its batch number.
BatchCallFailsTakingNumber ==
    /\ InLoop
    /\ ContinueAfterError(Entry("error", FALSE, <<>>))
    /\ batch_num' = batch_num + 1
    /\ UNCHANGED <<pc, pass, input_file, start_dir, dir, hadiths, batch_size, translations,
                   combined_translations, missing_hadiths, final_output, parserVars>>

\* generate_content (or create_batch_prompt, or response.text) raises.
BatchCallFails ==
    /\ InLoop
    /\ ContinueAfterError(Entry("error", FALSE, <<>>))
    /\ UNCHANGED <<pc, pass, input_file, start_dir, dir, hadiths, batch_size, batch_num, translations,
                   combined_translations, missing_hadiths, final_output, parserVars>>

\* parse_gemini_response raises ValueError.
BatchParseFails(reply) ==
    /\ InLoop
    /\ parse_gemini_response(reply).raised
    /\ ContinueAfterError(Entry("error", FALSE, <<>>))
    /\ UNCHANGED <<pc, pass, input_file, start_dir, dir, hadiths, batch_size, batch_num, translations,
                   combined_translations, missing_hadiths, final_output, parserVars>>

\* save_batch: open(batch_file, 'w') raises; nothing is written.
BatchOpenFails(reply) ==
    /\ InLoop
    /\ ~parse_gemini_response(reply).raised
    /\ ContinueAfterError(Entry("error", FALSE, <<>>))
    /\ UNCHANGED <<pc, pass, input_file, start_dir, dir, hadiths, batch_size, batch_num, translations,
                   combined_translations, missing_hadiths, final_output, parserVars>>

\* save_batch: the file is opened (created or truncated), then writing it raises.
BatchWriteFails(reply) ==
    /\ InLoop
    /\ ~parse_gemini_response(reply).raised
    /\ \E left \in PartialFiles : dir' = WriteFile(dir, batch_num, left)
    /\ ContinueAfterError(Entry("error", TRUE, <<>>))
    /\ UNCHANGED <<pc, pass, input_file, start_dir, hadiths, batch_size, batch_num, translations,
                   combined_translations, missing_hadiths, final_output, parserVars>>

(***************************************************************************)
(* process_all                                                             *)
(***************************************************************************)

\* Lines 151-156: the input file loads; translate_hadiths(hadiths, batch_size=20).
LoadInput ==
    /\ pc = "INITIAL"
    /\ EnterTranslate(input_file, FirstPassBatchSize, 1)
    /\ UNCHANGED <<input_file, start_dir, dir, combined_translations, missing_hadiths,
                   final_output, trace, parserVars>>

\* Lines 151-153: open or json.load raises, and nothing catches it.
LoadInputFails ==
    /\ pc = "INITIAL"
    /\ pc' = "ABORTED"
    /\ UNCHANGED <<pass, input_file, start_dir, dir, hadiths, batch_size, i, batch_num, translations,
                   combined_translations, missing_hadiths, final_output, trace, parserVars>>

\* Line 156 returns: the loop of pass 1 is over.
EndFirstPass ==
    /\ pc = "TRANSLATING" /\ pass = 1 /\ i >= Len(hadiths)
    /\ pc' = "COMBINING"
    /\ UNCHANGED <<pass, input_file, start_dir, dir, hadiths, batch_size, i, batch_num, translations,
                   combined_translations, missing_hadiths, final_output, trace, parserVars>>

\* Every file of the directory can be opened and read as text.
AllReadable(d) == \A n \in DOMAIN d : d[n].readable

\* Line 159: combine_batches_except_last returns.
Combine ==
    /\ pc = "COMBINING"
    /\ AllReadable(dir)
    /\ combined_translations' = combine_batches_except_last(dir)
    /\ pc' = "MISSING_CHECK"
    /\ UNCHANGED <<pass, input_file, start_dir, dir, hadiths, batch_size, i, batch_num, translations,
                   missing_hadiths, final_output, trace, parserVars>>

\* Line 159, lines 98-100: reading a file raises something other than
\* json.JSONDecodeError; the except clause does not match and nothing else catches it.
CombineFails ==
    /\ pc = "COMBINING"
    /\ ~AllReadable(dir)
    /\ pc' = "ABORTED"
    /\ UNCHANGED <<pass, input_file, start_dir, dir, hadiths, batch_size, i, batch_num, translations,
                   combined_translations, missing_hadiths, final_output, trace, parserVars>>

\* Line 162, lines 113-114: find_missing_hadiths opens and loads the input file
\* again; this raises, and nothing catches it.
MissingCheckFails ==
    /\ pc = "MISSING_CHECK"
    /\ pc' = "ABORTED"
    /\ UNCHANGED <<pass, input_file, start_dir, dir, hadiths, batch_size, i, batch_num, translations,
                   combined_translations, missing_hadiths, final_output, trace, parserVars>>

\* Lines 162-168: no hadith is missing.
NothingMissing ==
    /\ pc = "MISSING_CHECK"
    /\ find_missing_hadiths(input_file, combined_translations) = <<>>
    /\ missing_hadiths' = <<>>
    /\ pc' = "WRITING"
    /\ UNCHANGED <<pass, input_file, start_dir, dir, hadiths, batch_size, i, batch_num, translations,
                   combined_translations, final_output, trace, parserVars>>

\* The second pass submitting the whole input again when anything is missing.
StartSecondPassWithAll ==
    /\ pc = "MISSING_CHECK"
    /\ LET missing == find_missing_hadiths(input_file, combined_translations)
       IN  /\ missing # <<>>
           /\ missing_hadiths' = missing
           /\ EnterTranslate(input_file, SecondPassBatchSize(missing), 2)
    /\ UNCHANGED <<input_file, start_dir, dir, combined_translations, final_output, trace, parserVars>>

\* Lines 162-168: some are missing; translate_hadiths(missing_hadiths, batch_size).
StartSecondPass ==
    /\ pc = "MISSING_CHECK"
    /\ LET missing == find_missing_hadiths(input_file, combined_translations)
       IN  /\ missing # <<>>
           /\ missing_hadiths' = missing
           /\ EnterTranslate(missing, SecondPassBatchSize(missing), 2)
    /\ UNCHANGED <<input_file, start_dir, dir, combined_translations, final_output, trace, parserVars>>

\* Going back to combine and check again after the second pass.
RecheckAfterSecondPass ==
    /\ pc = "TRANSLATING" /\ pass = 2 /\ i >= Len(hadiths)
    /\ pc' = "COMBINING"
    /\ UNCHANGED <<pass, input_file, start_dir, dir, hadiths, batch_size, i, batch_num, translations,
                   combined_translations, missing_hadiths, final_output, trace, parserVars>>

\* Lines 168-169: combined_translations.extend(additional_translations).
EndSecondPass ==
    /\ pc = "TRANSLATING" /\ pass = 2 /\ i >= Len(hadiths)
    /\ combined_translations' = combined_translations \o translations
    /\ pc' = "WRITING"
    /\ UNCHANGED <<pass, input_file, start_dir, dir, hadiths, batch_size, i, batch_num, translations,
                   missing_hadiths, final_output, trace, parserVars>>

\* The final output made by reading the chunk files back once more.
WriteFinalFromFiles ==
    /\ pc = "WRITING"
    /\ final_output' = [written |-> TRUE, data |-> combine_batches_except_last(dir)]
    /\ pc' = "DONE"
    /\ UNCHANGED <<pass, input_file, start_dir, dir, hadiths, batch_size, i, batch_num, translations,
                   combined_translations, missing_hadiths, trace, parserVars>>

\* Lines 171-175.
WriteFinal ==
    /\ pc = "WRITING"
    /\ final_output' = [written |-> TRUE, data |-> combined_translations]
    /\ pc' = "DONE"
    /\ UNCHANGED <<pass, input_file, start_dir, dir, hadiths, batch_size, i, batch_num, translations,
                   combined_translations, missing_hadiths, trace, parserVars>>

\* Lines 172-173: open or json.dump raises, and nothing catches it.
WriteFinalFails ==
    /\ pc = "WRITING"
    /\ pc' = "ABORTED"
    /\ UNCHANGED <<pass, input_file, start_dir, dir, hadiths, batch_size, i, batch_num, translations,
                   combined_translations, missing_hadiths, final_output, trace, parserVars>>

Init ==
    /\ pc = "INITIAL"
    /\ pass = 0
    /\ input_file \in Inputs
    /\ start_dir \in InitialDirs
    /\ dir = start_dir
    /\ hadiths = <<>>
    /\ batch_size = 0
    /\ i = 0
    /\ batch_num = 0
    /\ translations = <<>>
    /\ combined_translations = <<>>
    /\ missing_hadiths = <<>>
    /\ final_output = NoFile
    /\ trace = <<>>
    /\ pairs = <<>>
    /\ response_text = <<>>
    /\ parsed = NotParsed

Next ==
    \/ LoadInput
    \/ LoadInputFails
    \/ BatchCallFails
    \/ \E reply \in Replies(Batch) : BatchSaved(reply)
    \/ \E reply \in Replies(Batch) : BatchParseFails(reply)
    \/ \E reply \in Replies(Batch) : BatchOpenFails(reply)
    \/ \E reply \in Replies(Batch) : BatchWriteFails(reply)
    \/ EndFirstPass
    \/ Combine
    \/ CombineFails
    \/ MissingCheckFails
    \/ NothingMissing
    \/ StartSecondPass
    \/ EndSecondPass
    \/ WriteFinal
    \/ WriteFinalFails

Spec == Init /\ [][Next]_vars

\* The program is one sequential thread: whenever a step is possible, one is taken.
FairSpec == Spec /\ WF_vars(Next)

(***************************************************************************)
(* find_missing_hadiths on arbitrary arguments: process_all placed at      *)
(* MISSING_CHECK with any input list and any combined result.              *)
(***************************************************************************)

\* Input lists of at most MaxMissingLen records over the ids 1..MaxMissingId, and the list 1..MaxMissingId.
MaxMissingLen == 2

MaxMissingId == 5

RECURSIVE SeqsUpTo(_, _)
SeqsUpTo(S, n) ==
    IF n = 0 THEN {<<>>}
    ELSE LET shorter == SeqsUpTo(S, n - 1)
         IN  shorter \cup {Append(q, x) : q \in shorter, x \in S}

MissingInputs ==
    {[k \in 1..Len(q) |-> Record(q[k])] : q \in SeqsUpTo(1..MaxMissingId, MaxMissingLen)}
    \cup {[k \in 1..MaxMissingId |-> Record(k)]}

\* Combined results: for every set of ids (one of them in no input), its records in increasing id order.
MissingCombined ==
    {[k \in 1..Len(Sorted(S)) |-> Translated(Sorted(S)[k], ReplyText)] :
        S \in SUBSET (1..(MaxMissingId + 1))}

MissingInit ==
    /\ pc = "MISSING_CHECK"
    /\ pass = 1
    /\ input_file \in MissingInputs
    /\ combined_translations \in MissingCombined
    /\ start_dir = EmptyDir
    /\ dir = EmptyDir
    /\ hadiths = input_file
    /\ batch_size = FirstPassBatchSize
    /\ i = Len(input_file)
    /\ batch_num = 1
    /\ translations = <<>>
    /\ missing_hadiths = <<>>
    /\ final_output = NoFile
    /\ trace = <<>>
    /\ pairs = <<>>
    /\ response_text = <<>>
    /\ parsed = NotParsed

MissingNext == NothingMissing \/ StartSecondPass

MissingSpec == MissingInit /\ [][MissingNext]_vars

(***************************************************************************)
(* The parser's round trip: format pairs as a reply, parse the reply.      *)
(***************************************************************************)

\* The characters of a synthetic translation.
TextChars == {"a", " ", ":", "1"}

Texts == SeqsUpTo(TextChars, MaxTextLen) \ {<<>>}

PairIds == {0, 10}

Pairs == {[id |-> n, text |-> t] : n \in PairIds, t \in Texts}

PairLists == SeqsUpTo(Pairs, MaxPairs)

RoundTripInit ==
    /\ pc = "PAIRS"
    /\ pairs \in PairLists
    /\ response_text = <<>>
    /\ parsed = NotParsed
    /\ pass = 0
    /\ input_file = <<>>
    /\ start_dir = EmptyDir
    /\ dir = EmptyDir
    /\ hadiths = <<>>
    /\ batch_size = 0
    /\ i = 0
    /\ batch_num = 0
    /\ translations = <<>>
    /\ combined_translations = <<>>
    /\ missing_hadiths = <<>>
    /\ final_output = NoFile
    /\ trace = <<>>

\* The reply of the service is the lines "{id}: {text}".
BuildReply ==
    /\ pc = "PAIRS"
    /\ response_text' = FormatReply(pairs)
    /\ pc' = "REPLY"
    /\ UNCHANGED <<pass, input_file, start_dir, dir, hadiths, batch_size, i, batch_num,
                   translations, combined_translations, missing_hadiths, final_output,
                   trace, pairs, parsed>>

\* batch_translations = self.parse_gemini_response(response.text)
ParseReply ==
    /\ pc = "REPLY"
    /\ parsed' = parse_gemini_response(response_text)
    /\ pc' = "PARSED"
    /\ UNCHANGED <<pass, input_file, start_dir, dir, hadiths, batch_size, i, batch_num,
                   translations, combined_translations, missing_hadiths, final_output,
                   trace, pairs, response_text>>

RoundTripNext == BuildReply \/ ParseReply

RoundTripSpec == RoundTripInit /\ [][RoundTripNext]_vars

(***************************************************************************)
(* The parser on raw text: any reply of the service, character by          *)
(* character, is handed to parse_gemini_response.                          *)
(***************************************************************************)

\* A digit, the colon, a letter, a blank, a line break, and the superscript digit.
ReplyChars == {"5", ":", "a", " ", "\n", SuperTwo}

RawReplies == SeqsUpTo(ReplyChars, MaxReplyLen)

RawInit ==
    /\ pc = "REPLY"
    /\ response_text \in RawReplies
    /\ pairs = <<>>
    /\ parsed = NotParsed
    /\ pass = 0
    /\ input_file = <<>>
    /\ start_dir = EmptyDir
    /\ dir = EmptyDir
    /\ hadiths = <<>>
    /\ batch_size = 0
    /\ i = 0
    /\ batch_num = 0
    /\ translations = <<>>
    /\ combined_translations = <<>>
    /\ missing_hadiths = <<>>
    /\ final_output = NoFile
    /\ trace = <<>>

RawNext == ParseReply

RawSpec == RawInit /\ [][RawNext]_vars

(***************************************************************************)
(* Properties.                                                             *)
(***************************************************************************)

IdSeq(records) == [k \in 1..Len(records) |-> records[k].id]

UniqueIds ==
    \A j, k \in 1..Len(input_file) : input_file[j].id = input_file[k].id => j = k

\* Every call so far succeeded and its reply parsed into one record per record of the chunk.
AllRepliesGood ==
    \A k \in 1..Len(trace) :
        trace[k].outcome = "ok" /\ IdSeq(trace[k].data) = IdSeq(trace[k].batch)

CleanRun == start_dir = EmptyDir /\ UniqueIds /\ AllRepliesGood

SecondPassRunning == pc = "TRANSLATING" /\ pass = 2

\* C1: from an empty chunk directory, unique ids and good replies throughout, the
\* pass-1 combined result has N records when N is a multiple of 20 and N-1 otherwise,
\* the missing set is exactly the trimmed last record (or empty), pass 2 uses chunk
\* size 5, and the final output holds exactly N records, one per input id.
C1_EndToEnd ==
    CleanRun =>
        LET n == Len(input_file)
            expected == IF n % 20 = 0 THEN n ELSE n - 1
        IN  /\ (pc = "MISSING_CHECK" \/ SecondPassRunning)
                => Len(combined_translations) = expected
            /\ (pass = 2 \/ pc \in {"WRITING", "DONE"})
                => missing_hadiths = IF expected = n THEN <<>> ELSE <<input_file[n]>>
            /\ pass = 2 => batch_size = 5
            /\ pc = "DONE"
                => /\ final_output.written
                   /\ Len(final_output.data) = n
                   /\ \A k \in 1..n :
                        Cardinality({j \in 1..Len(final_output.data) :
                                        final_output.data[j].id = input_file[k].id}) = 1

C1_Witness ==
    /\ CleanRun
    /\ pc = "DONE"
    /\ pass = 2
    /\ Len(input_file) = 25
    /\ Len(missing_hadiths) = 1
    /\ Len(final_output.data) = 25

\* The number of records a file of n records contributes: n-1 below 20, n from 20 on.
TrimmedLen(file) ==
    IF ~file.valid \/ Len(file.data) = 0 THEN 0
    ELSE IF Len(file.data) < 20 THEN Len(file.data) - 1 ELSE Len(file.data)

RECURSIVE TrimmedSum(_, _)
TrimmedSum(d, nums) ==
    IF nums = {} THEN 0
    ELSE LET n == CHOOSE m \in nums : TRUE
         IN  TrimmedLen(d[n]) + TrimmedSum(d, nums \ {n})

\* Where the contribution of batch_<n>.json starts in the combined result.
OffsetOf(d, n) == TrimmedSum(d, {m \in DOMAIN d : m < n})

\* C2: in the combined result every chunk file of n < 20 records contributes exactly
\* its first n-1 records and every file of n >= 20 records all n, in file order, the
\* files in increasing sequence-number order.
C2_CombinationTrimming ==
    pc = "MISSING_CHECK" =>
        /\ Len(combined_translations) = TrimmedSum(dir, DOMAIN dir)
        /\ \A n \in DOMAIN dir : \A k \in 1..TrimmedLen(dir[n]) :
              combined_translations[OffsetOf(dir, n) + k] = dir[n].data[k]

C2_Witness ==
    /\ pc = "MISSING_CHECK"
    /\ \E a, b \in DOMAIN dir :
          /\ a < b
          /\ dir[a].valid /\ Len(dir[a].data) >= 20
          /\ dir[b].valid /\ Len(dir[b].data) > 1 /\ Len(dir[b].data) < 20
          /\ Len(combined_translations) >= Len(dir[a].data) + Len(dir[b].data) - 1

\* The positions of the input records whose id is on no combined record.
AbsentAt ==
    {k \in 1..Len(input_file) :
        \A j \in 1..Len(combined_translations) :
            combined_translations[j].id # input_file[k].id}

NthAbsent(j) == CHOOSE k \in AbsentAt : Cardinality({m \in AbsentAt : m <= k}) = j

\* C3: for any input list and any combined result, the missing set computed at
\* MISSING_CHECK is exactly the input records whose id is on no combined record,
\* in input order.
C3_MissingDetection ==
    pc # "MISSING_CHECK" =>
        /\ Len(missing_hadiths) = Cardinality(AbsentAt)
        /\ \A j \in 1..Len(missing_hadiths) : missing_hadiths[j] = input_file[NthAbsent(j)]

C3_Witness ==
    /\ pc = "TRANSLATING"
    /\ IdSeq(input_file) = <<1, 2, 3, 4, 5>>
    /\ Ids(combined_translations) = {1, 2, 4}
    /\ IdSeq(missing_hadiths) = <<3, 5>>

C4_Step ==
    /\ pass' \in {pass, pass + 1} /\ pass' <= 2
    /\ (pass = 1 /\ pass' = 2) => pc = "MISSING_CHECK"
    /\ (pc = "MISSING_CHECK" /\ pc' \notin {pc, "ABORTED"})
         => ((pass' = 2) <=> (\E k \in 1..Len(input_file) :
                                 input_file[k].id \notin Ids(combined_translations)))
    /\ pass = 2 => /\ missing_hadiths' = missing_hadiths
                   /\ pc' \in {"TRANSLATING", "WRITING", "DONE", "ABORTED"}
    /\ pc = "WRITING" => pc' \in {"DONE", "ABORTED"}
    /\ pc = "DONE" => pc' = "DONE"

\* C4: a run has at most two translating passes; pass 2 happens exactly when the
\* missing set after pass 1 is non-empty; after pass 2 the missing set is not
\* recomputed and no third pass starts: the only steps left are the rest of pass 2,
\* the write of the final output, and the end of the run.
C4_OneReconciliationPass == [][C4_Step]_vars

C4_Witness ==
    /\ pc = "DONE"
    /\ pass = 2
    /\ \E k \in 1..Len(input_file) : input_file[k].id \notin Ids(final_output.data)

\* C5: a chunk whose processing raises leaves no chunk file, partial or complete, and
\* adds nothing to the in-memory accumulation; the loop goes on with the next chunk.
C5_FailedChunkLeavesNothing ==
    [][(Len(trace') = Len(trace) + 1 /\ trace'[Len(trace')].outcome = "error")
          => (dir' = dir /\ translations' = translations /\ i' = i + batch_size)]_vars

RECURSIVE ConcatBatches(_)
ConcatBatches(entries) ==
    IF Len(entries) = 0 THEN <<>>
    ELSE Head(entries).batch \o ConcatBatches(Tail(entries))

\* The records submitted to the service in pass p, in submission order.
Submitted(p) ==
    LET InPass(e) == e.pass = p
    IN  ConcatBatches(SelectSeq(trace, InPass))

C6_Submissions ==
    /\ \A k \in 1..Len(trace) : Len(trace[k].batch) > 0
    /\ pass >= 1 => Submitted(pass) = SubSeq(hadiths, 1, Min(i, Len(hadiths)))
    /\ (pass >= 1 /\ pc # "TRANSLATING") => Submitted(pass) = hadiths
    /\ pass = 2 => Submitted(1) = input_file /\ hadiths = missing_hadiths
    /\ pc = "DONE" => final_output.written

\* C6: whatever calls fail, each pass submits every chunk exactly once and in input
\* order, no step of the chunk loop aborts the run, and the run always ends: at DONE
\* with the final output written, or aborted by a step outside the chunk loop.
C6_ChunkFailureIsolated ==
    /\ []C6_Submissions
    /\ [][pc' = "ABORTED" => pc # "TRANSLATING"]_vars
    /\ <>(pc \in {"DONE", "ABORTED"})

C6_Witness ==
    /\ pc = "DONE"
    /\ final_output.written
    /\ \E j, k \in 1..Len(trace) :
          /\ j < k
          /\ trace[j].pass = 1 /\ trace[k].pass = 1
          /\ trace[j].outcome = "error" /\ trace[k].outcome = "ok"

\* C7: at every point of the run, of either pass, the parsed output of every chunk
\* processed successfully so far is on disk in its chunk file.
C7_EarlierOutputsOnDisk ==
    \A k \in 1..Len(trace) :
        trace[k].outcome = "ok"
            => /\ trace[k].num \in DOMAIN dir
               /\ dir[trace[k].num] = File(trace[k].data)

\* C8: over a whole run no batch_<n>.json that has been written is written again,
\* and chunk files are written in strictly increasing sequence-number order: every
\* write comes after the completed writes of smaller numbers only.
C8_WrittenOnceInOrder ==
    \A j, k \in 1..Len(trace) :
        (j < k /\ trace[j].outcome = "ok" /\ trace[k].wrote) => trace[j].num < trace[k].num

\* C9: every record of the combined result and of the final output has the id of
\* some record of the input file, whatever the replies (here from an empty directory).
C9_IdsTraceable ==
    start_dir = EmptyDir =>
        /\ Ids(combined_translations) \subseteq Ids(input_file)
        /\ Ids(final_output.data) \subseteq Ids(input_file)

\* A text that starts with a numeric token followed by a colon.
NumericColonStart(text) ==
    /\ Find(text, ":") > 0
    /\ isdigit(strip(SubSeq(text, 1, Find(text, ":") - 1)))

\* Non-empty, single-line, not starting with a numeric token and a colon.
PlainText(text) ==
    /\ Len(text) > 0
    /\ \A k \in 1..Len(text) : text[k] # "\n"
    /\ ~NumericColonStart(text)

\* No whitespace at either end.
Stripped(text) ==
    Len(text) > 0 => (text[1] \notin Whitespace /\ text[Len(text)] \notin Whitespace)

\* C10 as stated: for any pairs with non-empty single-line texts that do not start
\* with a numeric token and a colon, parsing the lines "{id}: {text}" yields exactly
\* those pairs, in order.
C10_RoundTripAnyText ==
    (pc = "PARSED" /\ \A k \in 1..Len(pairs) : PlainText(pairs[k].text))
        => (~parsed.raised /\ parsed.translations = pairs)

\* C10, amended: the same for texts that have no leading or trailing whitespace.
C10_RoundTripStrippedText ==
    (pc = "PARSED" /\ \A k \in 1..Len(pairs) :
                          PlainText(pairs[k].text) /\ Stripped(pairs[k].text))
        => (~parsed.raised /\ parsed.translations = pairs)

C10_Witness ==
    /\ pc = "PARSED"
    /\ Len(pairs) = 2
    /\ pairs[1].id = 10 /\ pairs[1].text = <<":">>
    /\ pairs[2].id = 0 /\ pairs[2].text = <<"a">>
    /\ parsed.translations = pairs

\* C11: the parser raises on no reply text: every text parses into a list of records.
C11_ParserNeverRaises == pc = "PARSED" => ~parsed.raised

\* The lines the parser's loop does not skip, stripped.
NonBlankLines(text) ==
    LET lines == split(strip(text), "\n")
        NonBlank(line) == Len(line) > 0
    IN  SelectSeq([k \in 1..Len(lines) |-> strip(lines[k])], NonBlank)

LineId(line) == IntOf(strip(split1(line, ":")[1]))

\* An integer and a colon with nothing after the colon.
BareIdLine(line) ==
    /\ IsIdLine(line)
    /\ IntDefined(strip(split1(line, ":")[1]))
    /\ strip(split1(line, ":")[2]) = <<>>

\* Line j is such a line, followed directly by an identifier line or by the end.
Unfollowed(lines, j) ==
    /\ BareIdLine(lines[j])
    /\ (j = Len(lines) \/ IsIdLine(lines[j + 1]))

\* C12: an identifier line with nothing after its colon, followed directly by another
\* identifier line or by the end of the reply, produces no record for its id (when
\* every identifier line of that id is such a line, the id is on no record), and no
\* record has an empty translation.
C12_NoRecordWithoutContent ==
    (pc = "PARSED" /\ ~parsed.raised) =>
        LET lines == NonBlankLines(response_text)
        IN  /\ \A j \in 1..Len(lines) :
                  (/\ Unfollowed(lines, j)
                   /\ \A m \in 1..Len(lines) :
                         (IsIdLine(lines[m]) /\ LineId(lines[m]) = LineId(lines[j]))
                             => Unfollowed(lines, m))
                      => LineId(lines[j]) \notin Ids(parsed.translations)
            /\ \A k \in 1..Len(parsed.translations) :
                  parsed.translations[k].text # <<>>

\* The missing set of the run has been computed.
MissingComputed == pass = 2 \/ (pass = 1 /\ pc \in {"WRITING", "DONE"})

InSeq(x, q) == \E k \in 1..Len(q) : q[k] = x

\* The history entries of the chunks of pass 1 whose processing failed.
FailedInFirstPass == {k \in 1..Len(trace) : trace[k].pass = 1 /\ trace[k].outcome = "error"}

\* C13: every record of a chunk that failed in pass 1 is in the missing set computed
\* at MISSING_CHECK, and has been resubmitted in pass 2 when the run reaches the
\* final write.
C13_FailedChunkIsMissing ==
    MissingComputed =>
        \A k \in FailedInFirstPass : \A j \in 1..Len(trace[k].batch) :
            /\ InSeq(trace[k].batch[j], missing_hadiths)
            /\ pc \in {"WRITING", "DONE"} => InSeq(trace[k].batch[j], Submitted(2))

\* C14: in a run started with an empty chunk directory the chunk files on disk are
\* at every point exactly batch_1 .. batch_k for some k >= 0, whatever chunks fail.
C14_ContiguousNumbers ==
    start_dir = EmptyDir => DOMAIN dir = 1..Cardinality(DOMAIN dir)

C14_Witness ==
    /\ start_dir = EmptyDir
    /\ DOMAIN dir = {1, 2}
    /\ \E j, k \in 1..Len(trace) :
          /\ j < k
          /\ trace[j].outcome = "error" /\ ~trace[j].wrote
          /\ trace[k].outcome = "ok" /\ trace[k].pass = trace[j].pass

\* The history entries of pass p, in order.
EntriesOf(p) ==
    LET InPass(e) == e.pass = p
    IN  SelectSeq(trace, InPass)

\* The list pass p works on, and the chunk size the claim gives it.
ListOf(p) == IF p = 1 THEN input_file ELSE missing_hadiths

ClaimedSize(p) == IF p = 1 THEN 20 ELSE IF Len(missing_hadiths) < 20 THEN 5 ELSE 20

PassOver(p) == pass > p \/ (pass = p /\ pc # "TRANSLATING")

\* C15: the m-th chunk of a pass is the m-th contiguous slice of the pass's list at
\* the pass's chunk size (20 in pass 1; in pass 2, 5 for fewer than 20 missing records
\* and 20 otherwise): every chunk is non-empty, all but the last have exactly that
\* size, and a finished pass has covered its whole list.
C15_Chunking ==
    \A p \in 1..pass :
        LET list == ListOf(p)
            size == ClaimedSize(p)
            es   == EntriesOf(p)
        IN  /\ \A m \in 1..Len(es) :
                  /\ (m - 1) * size < Len(list)
                  /\ es[m].batch = SubSeq(list, (m - 1) * size + 1, Min(m * size, Len(list)))
                  /\ m < Len(es) => Len(es[m].batch) = size
            /\ PassOver(p) => Len(es) * size >= Len(list)

C15_Witness ==
    /\ pc = "DONE"
    /\ pass = 2
    /\ Len(input_file) = 25
    /\ Len(missing_hadiths) = 21
    /\ Len(EntriesOf(1)) = 2 /\ Len(EntriesOf(1)[2].batch) = 5
    /\ Len(EntriesOf(2)) = 2 /\ Len(EntriesOf(2)[1].batch) = 20 /\ Len(EntriesOf(2)[2].batch) = 1

\* The trimming rule on the output of one chunk: all but the last record below 20 records.
Trimmed(data) == IF Len(data) < 20 THEN SubSeq(data, 1, Len(data) - 1) ELSE data

\* The trimmed outputs of the chunks that succeeded among the entries, concatenated.
RECURSIVE TrimmedOutputs(_)
TrimmedOutputs(entries) ==
    IF Len(entries) = 0 THEN <<>>
    ELSE (IF Head(entries).outcome = "ok" THEN Trimmed(Head(entries).data) ELSE <<>>)
             \o TrimmedOutputs(Tail(entries))

\* C16: whatever the directory held when the job started, the combined result of
\* pass 1 is the trimmed concatenation of the outputs of the pass-1 chunks that
\* succeeded, and of nothing else.
C16_CombinesOwnChunks ==
    pc = "MISSING_CHECK" => combined_translations = TrimmedOutputs(EntriesOf(1))

WellFormed(file) == file.readable /\ file.valid

\* The trimmed contents of the named files of d, concatenated.
RECURSIVE TrimmedFiles(_, _)
TrimmedFiles(d, names) ==
    IF Len(names) = 0 THEN <<>>
    ELSE Trimmed(d[Head(names)].data) \o TrimmedFiles(d, Tail(names))

\* C17: when the directory holds a chunk file that is not well-formed, combination
\* still completes: the step from COMBINING goes to MISSING_CHECK, with the trimmed
\* records of every well-formed file, in file order, and nothing of the others.
C17_MalformedFileSkipped ==
    [][(pc = "COMBINING" /\ \E n \in DOMAIN dir : ~WellFormed(dir[n]))
          => /\ pc' = "MISSING_CHECK"
             /\ combined_translations' =
                    TrimmedFiles(dir, Sorted({n \in DOMAIN dir : WellFormed(dir[n])}))]_vars

\* C18: the run is aborted only by the load of the input file at the start or by the
\* write of the final output: no step taken while translating, combining or
\* checking for missing records aborts it.
C18_AbortOnlyAtLoadOrFinalWrite ==
    [][(pc # "ABORTED" /\ pc' = "ABORTED") => pc \in {"INITIAL", "WRITING"}]_vars

\* The records parsed from the chunks that succeeded among the entries, in order.
RECURSIVE Outputs(_)
Outputs(entries) ==
    IF Len(entries) = 0 THEN <<>>
    ELSE (IF Head(entries).outcome = "ok" THEN Head(entries).data ELSE <<>>)
             \o Outputs(Tail(entries))

C19_Step ==
    /\ (pass = 2 /\ pc = "TRANSLATING" /\ pc' = "TRANSLATING")
          => combined_translations' = combined_translations
    /\ (pass = 2 /\ pc = "TRANSLATING" /\ pc' # "TRANSLATING")
          => combined_translations' = combined_translations \o Outputs(EntriesOf(2))
    /\ (pc = "WRITING" /\ pc' = "DONE")
          => final_output' = [written |-> TRUE, data |-> combined_translations]

\* C19: the pass-1 combined result is untouched while pass 2 runs; when pass 2 ends,
\* every record parsed from its successful chunks is appended to it, in processing
\* order and untrimmed; and the final output is that list as held in memory.
C19_SecondPassFromMemory == [][C19_Step]_vars

C19_Witness ==
    /\ pc = "DONE"
    /\ pass = 2
    /\ Len(final_output.data) > Len(Outputs(EntriesOf(2)))
    /\ \E k \in 1..Len(trace) :
          /\ trace[k].pass = 2 /\ trace[k].outcome = "ok"
          /\ Len(trace[k].data) > 0 /\ Len(trace[k].data) < 20
          /\ final_output.data[Len(final_output.data)] = trace[k].data[Len(trace[k].data)]

NoIdTwice(records) ==
    \A j, k \in 1..Len(records) : records[j].id = records[k].id => j = k

\* Every reply parsed so far holds only ids of its own chunk, each at most once.
WellBehavedReplies ==
    \A k \in 1..Len(trace) :
        trace[k].outcome = "ok"
            => (Ids(trace[k].data) \subseteq Ids(trace[k].batch) /\ NoIdTwice(trace[k].data))

\* C20: from an empty chunk directory, with unique input ids and replies that hold
\* only ids of their own chunk, each at most once, no id is twice in the combined
\* result or in the final output, whatever chunks fail and whatever the replies
\* leave out; pass 2 collects only ids that the pass-1 combined result lacks.
C20_NoDuplicateIds ==
    (start_dir = EmptyDir /\ UniqueIds /\ WellBehavedReplies) =>
        /\ NoIdTwice(combined_translations)
        /\ NoIdTwice(final_output.data)
        /\ SecondPassRunning
              => (NoIdTwice(translations)
                  /\ Ids(translations) \cap Ids(combined_translations) = {})

C20_Witness ==
    /\ start_dir = EmptyDir /\ UniqueIds /\ WellBehavedReplies
    /\ pc = "DONE"
    /\ pass = 2
    /\ Len(final_output.data) >= 20
    /\ \E j, k \in 1..Len(trace) :
          /\ trace[j].outcome = "error"
          /\ trace[k].outcome = "ok" /\ Len(trace[k].data) < Len(trace[k].batch)
          /\ trace[k].pass = 2

====
